---- MODULE Spec2Model ----
(***************************************************************************)
(* Model of the Task/Todo REST backend (src/backend/app): the two          *)
(* ModelViewSets, their serializers and the two models.  The store is the  *)
(* pair of tables (tasks, todos); every request handler is one action,     *)
(* except TaskSerializer.update, whose loop over the nested Todo           *)
(* descriptors persists one record per iteration and is therefore a        *)
(* process with a position (upd).  The token table and the logins in       *)
(* flight model LoginView and the token check in front of the endpoints.   *)
(***************************************************************************)
EXTENDS Integers, Sequences, FiniteSets, TLC

VARIABLES tasks, todos, taskSeq, todoSeq, upd, resp, tokens, logins, users,
          inflight

vars == <<tasks, todos, taskSeq, todoSeq, upd, resp, tokens, logins, users,
          inflight>>

----------------------------------------------------------------------------
(* Bounds *)

MaxTasks == 2
MaxTodos == 2
MaxDescs == 2

(* Values *)

Users == {"u1", "u2", "admin"}

Titles == {"a", "b"}

\* a null foreign key (Todo.user, Todo.task are null=True)
NoUser == "-"

NoTask == 0

Empty == [x \in {} |-> x]

is_superuser(u) == u = "admin"

----------------------------------------------------------------------------
(* Generic helpers *)

Put(f, i, r) == [j \in DOMAIN f \cup {i} |-> IF j = i THEN r ELSE f[j]]

Drop(f, S) == [j \in DOMAIN f \ S |-> f[j]]

Get(d, k, default) == IF k \in DOMAIN d THEN d[k] ELSE default

MaxOf(S) == CHOOSE m \in S : \A n \in S : n <= m

MinOf(S) == CHOOSE m \in S : \A n \in S : m <= n

RECURSIVE order_by_created_asc(_)
\* .order_by('created_at'): oldest first
order_by_created_asc(S) ==
    IF S = {} THEN <<>>
    ELSE LET m == MinOf(S) IN <<m>> \o order_by_created_asc(S \ {m})

RECURSIVE order_by_created_desc(_)
\* .order_by('-created_at'): ids are allocated in creation order
order_by_created_desc(S) ==
    IF S = {} THEN <<>>
    ELSE LET m == MaxOf(S) IN <<m>> \o order_by_created_desc(S \ {m})

Range(s) == {s[i] : i \in DOMAIN s}

----------------------------------------------------------------------------
(* Model layer *)

\* Task.objects.create / Todo.objects.create: the new row
\* the optional fields at their defaults: NoText stands for a NULL description
NoText == ""

\* a NULL due_date
NoDate == 0

NewTask(u, title) == [user |-> u, title |-> title, description |-> NoText]

\* default=list in place of default=get_default_tags
get_default_tags_empty == <<>>

\* get_default_tags(): the default of Todo.tags
get_default_tags == <<"general">>

NewTodo(u, t, title) ==
    [user |-> u, task |-> t, title |-> title, tags |-> get_default_tags,
     description |-> NoText, completed |-> FALSE, due_date |-> NoDate]

\* Todo.objects.create(**fields): a field not given takes its default
Todo_objects_create(fields) ==
    [user |-> Get(fields, "user", NoUser),
     task |-> Get(fields, "task", NoTask),
     title |-> Get(fields, "title", ""),
     tags |-> Get(fields, "tags", get_default_tags),
     description |-> Get(fields, "description", NoText),
     completed |-> Get(fields, "completed", FALSE),
     due_date |-> Get(fields, "due_date", NoDate)]

\* the reverse accessor task.todos of Todo.task (related_name="todos")
task_todos(td, t) == {i \in DOMAIN td : td[i].task = t}

\* the Todos under the same Task deleted along with the Todo
Todo_delete_with_siblings(td, i) ==
    Drop(td, {i} \cup (IF td[i].task = NoTask THEN {}
                       ELSE task_todos(td, td[i].task)))

\* Todo.delete(): no model has a key to Todo, so the row goes alone
Todo_delete(td, i) == Drop(td, {i})

\* on_delete=SET_NULL in place of CASCADE
Task_delete_todos_set_null(td, t) ==
    [i \in DOMAIN td |->
        IF td[i].task = t THEN [td[i] EXCEPT !.task = NoTask] ELSE td[i]]

\* Task.delete(): Todo.task is on_delete=CASCADE
Task_delete_todos(td, t) == Drop(td, task_todos(td, t))

----------------------------------------------------------------------------
(* Scoping: get_queryset of the two viewsets *)

\* the superuser branch taken for everybody
TaskViewSet_get_queryset_unscoped(tk, u) == DOMAIN tk

TaskViewSet_get_queryset(tk, u) ==
    IF is_superuser(u) THEN DOMAIN tk
    ELSE {t \in DOMAIN tk : tk[t].user = u}

TodoViewSet_get_queryset_unscoped(td, u) == DOMAIN td

TodoViewSet_get_queryset(td, u) ==
    IF is_superuser(u) THEN DOMAIN td
    ELSE {i \in DOMAIN td : td[i].user = u}

----------------------------------------------------------------------------
(* Representations *)

\* ?include_todos=<value>; NoParam when the query has no such parameter
NoParam == "absent"

QueryValues == {NoParam, "1", "true"}

\* TaskTodoSerializer: the reduced field set, without user and task
TaskTodoSerializer_to_representation(td, i) ==
    [id |-> i, title |-> td[i].title, tags |-> td[i].tags,
     description |-> td[i].description, completed |-> td[i].completed,
     due_date |-> td[i].due_date]

\* the filter by user dropped for a superuser
get_todos_elevated(td, u, t) ==
    LET ids == order_by_created_desc(
                   IF is_superuser(u) THEN task_todos(td, t)
                   ELSE {i \in task_todos(td, t) : td[i].user = u})
    IN  [k \in DOMAIN ids |-> TaskTodoSerializer_to_representation(td, ids[k])]

\* TaskSerializer.get_todos: obj.todos.filter(user=request.user) when the
\* context has a request of an authenticated user (u is NoUser when it has
\* not), [] otherwise
get_todos(td, u, t) ==
    LET ids == order_by_created_desc(
                   {i \in task_todos(td, t) : td[i].user = u})
    IN  IF u = NoUser THEN <<>>
        ELSE [k \in DOMAIN ids |->
                 TaskTodoSerializer_to_representation(td, ids[k])]

\* every Todo of the Task counted
get_todos_count_unfiltered(td, u, t) == Cardinality(task_todos(td, t))

\* every Todo of the Task counted for a superuser
get_todos_count_elevated(td, u, t) ==
    IF u = NoUser THEN 0
    ELSE IF is_superuser(u) THEN Cardinality(task_todos(td, t))
    ELSE Cardinality({i \in task_todos(td, t) : td[i].user = u})

\* Todos of the requester counted whatever their Task
get_todos_count_any_task(td, u, t) ==
    IF u = NoUser THEN 0
    ELSE Cardinality({i \in DOMAIN td : td[i].user = u})

\* TaskSerializer.get_todos_count: obj.todos.filter(user=request.user).count()
\* for an authenticated requester, 0 otherwise
get_todos_count(td, u, t) ==
    IF u = NoUser THEN 0
    ELSE Cardinality({i \in task_todos(td, t) : td[i].user = u})

\* todos kept whenever the parameter is present, whatever its value
TaskSerializer_to_representation_any_value(tk, td, u, t, q) ==
    LET data == [id |-> t, title |-> tk[t].title, user |-> tk[t].user,
                 description |-> tk[t].description,
                 todos |-> get_todos(td, u, t),
                 todos_count |-> get_todos_count(td, u, t)]
    IN  IF q = NoParam THEN Drop(data, {"todos"}) ELSE data

\* TaskSerializer.to_representation: the fields of Meta, then todos popped
\* unless the query says include_todos=1
TaskSerializer_to_representation(tk, td, u, t, q) ==
    LET data == [id |-> t, title |-> tk[t].title, user |-> tk[t].user,
                 description |-> tk[t].description,
                 todos |-> get_todos(td, u, t),
                 todos_count |-> get_todos_count(td, u, t)]
    IN  IF q # "1" THEN Drop(data, {"todos"}) ELSE data

TodoSerializer_to_representation(tk, td, i) ==
    [id |-> i, title |-> td[i].title, user |-> td[i].user,
     task |-> td[i].task, tags |-> td[i].tags,
     description |-> td[i].description, completed |-> td[i].completed,
     due_date |-> td[i].due_date,
     task_title |-> IF td[i].task = NoTask THEN "" ELSE tk[td[i].task].title]

NotFound == [detail |-> "Not found."]

Invalid == [detail |-> "invalid"]

Response(op, u, id, data, status, body) ==
    [op |-> op, user |-> u, id |-> id, data |-> data, query |-> NoParam,
     status |-> status, body |-> body]

\* the response to a request whose query string carried include_todos
WithQuery(r, q) == [r EXCEPT !.query = q]

NoResponse == Response("", NoUser, 0, Empty, 0, Empty)

IdleUpd == [pc |-> "idle", user |-> NoUser, task |-> NoTask,
            instance |-> Empty, queue |-> <<>>, data |-> Empty, pre |-> Empty,
            log |-> <<>>]

\* no request is between its read of a row and its write of that row
IdleRequest == [pc |-> "idle", op |-> "", user |-> NoUser, id |-> 0,
                task |-> NoTask, data |-> Empty, row |-> Empty]

\* the clients that post to /auth/login/, each with one request in flight
Clients == {"c1", "c2"}

IdleLogin == [pc |-> "idle", data |-> Empty, user |-> NoUser,
              status |-> 0, body |-> Empty]

----------------------------------------------------------------------------
Init ==
    /\ tasks = Empty
    /\ todos = Empty
    /\ taskSeq = 0
    /\ todoSeq = 0
    /\ upd = IdleUpd
    /\ resp = NoResponse
    /\ tokens = <<>>
    /\ logins = [c \in Clients |-> IdleLogin]
    /\ users = Users
    /\ inflight = IdleRequest

\* no request on the store is in progress
StoreIdle == upd.pc = "idle" /\ resp = NoResponse

\* a worker takes the next request once the previous response has been sent
Idle == StoreIdle /\ \A c \in Clients : logins[c].pc = "idle"

TaskIds == 1..MaxTasks

TodoIds == 1..MaxTodos

----------------------------------------------------------------------------
(* Request payloads *)

Field(k, vals) == {k :> v : v \in vals}

\* POST /tasks/ bodies: title missing, empty or given; a client-supplied user
TaskCreatePayloads ==
    {t @@ o : t \in {Empty} \cup Field("title", {"", "a"}),
              o \in {Empty} \cup Field("user", {"u2"})}

\* PUT/PATCH /tasks/{id}/ bodies; a todos list or a user may be sent along
TaskUpdatePayloads ==
    {Empty, "title" :> "", "title" :> "b",
     ("title" :> "b") @@ ("user" :> "u2") @@ ("todos" :> <<[title |-> "b"]>>)}

\* POST /todos/ bodies
TodoCreatePayloads ==
    {Empty, "title" :> ""} \cup
    {("title" :> "a") @@ k @@ o :
        k \in {Empty} \cup Field("task", 1..MaxTasks),
        o \in {Empty} \cup Field("user", {"u2"})}

\* PUT/PATCH /todos/{id}/ bodies
TodoUpdatePayloads ==
    {Empty, "title" :> "", "title" :> "a", ("title" :> "a") @@ ("user" :> "u2")}
    \cup Field("task", 0..MaxTasks)

\* nested Todo descriptors handed to TaskSerializer.update: with an id and a
\* title, a user or a task to write, or without id
Descriptors ==
    {("id" :> i) @@ f : i \in 1..MaxTodos,
                        f \in Field("title", {"b"}) \cup Field("user", {"u2"})
                              \cup Field("task", {1})}
    \cup {"title" :> "b"}

RECURSIVE SeqsUpTo(_, _)
SeqsUpTo(S, n) ==
    IF n = 0 THEN {<<>>}
    ELSE LET shorter == SeqsUpTo(S, n - 1)
         IN shorter \cup {Append(s, x) : s \in shorter, x \in S}

\* validated_data passed to TaskSerializer.update when it is called directly
SerializerUpdateData ==
    {"todos" :> ds : ds \in SeqsUpTo(Descriptors, MaxDescs)}
    \cup {Empty, "title" :> "b"}

----------------------------------------------------------------------------
(* Validation: validated_data holds the writable fields only *)

Restrict(d, keys) == [k \in DOMAIN d \cap keys |-> d[k]]

\* TaskSerializer: user is read-only, todos is a SerializerMethodField
TaskSerializer_validated_data(p) == Restrict(p, {"title", "description"})

\* title with allow_blank=True
TaskSerializer_is_valid_allow_blank(p, partial) ==
    IF "title" \in DOMAIN p THEN TRUE ELSE partial

\* title is a required CharField that may not be blank
TaskSerializer_is_valid(p, partial) ==
    IF "title" \in DOMAIN p THEN p.title # "" ELSE partial

\* TodoSerializer: user is read-only; task is a PrimaryKeyRelatedField over
\* Task.objects.all(); tags is a ListField of strings, not required
TodoSerializer_validated_data(p) ==
    Restrict(p, {"title", "task", "tags", "description", "completed",
                 "due_date"})

TodoSerializer_is_valid(tk, p, partial) ==
    /\ IF "title" \in DOMAIN p THEN p.title # "" ELSE partial
    /\ "task" \in DOMAIN p => p.task \in DOMAIN tk \cup {NoTask}

----------------------------------------------------------------------------
(* Serializer and view operations on the store *)

TaskSerializer_create(p, u) ==
    LET vd == TaskSerializer_validated_data(p)
    IN  [NewTask(u, vd.title) EXCEPT
            !.description = Get(vd, "description", NoText)]

\* user left writable: the owner is taken from the payload when it has one
TodoSerializer_create_client_user(p, u) ==
    Todo_objects_create(
        ("user" :> Get(p, "user", u)) @@ TodoSerializer_validated_data(p))

\* validated_data['user'] = request.user, then ModelSerializer.create
TodoSerializer_create(p, u) ==
    Todo_objects_create(("user" :> u) @@ TodoSerializer_validated_data(p))

\* ModelSerializer.update: setattr for every validated field, then save()
TodoSerializer_update(todo, p) ==
    LET vd == TodoSerializer_validated_data(p)
    IN  [user |-> todo.user,
         task |-> Get(vd, "task", todo.task),
         title |-> Get(vd, "title", todo.title),
         tags |-> Get(vd, "tags", todo.tags),
         description |-> Get(vd, "description", todo.description),
         completed |-> Get(vd, "completed", todo.completed),
         due_date |-> Get(vd, "due_date", todo.due_date)]

\* TaskViewSet.perform_destroy: the todos table after both deletes
TaskViewSet_perform_destroy(td, u, t) ==
    LET own == IF is_superuser(u) THEN task_todos(td, t)
               ELSE {i \in task_todos(td, t) : td[i].user = u}
    IN  Task_delete_todos(Drop(td, own), t)

\* validated_data.get('description') without the default: a payload that
\* leaves description out resets it
TaskSerializer_update_fields_reset(task, vd) ==
    [user |-> task.user,
     title |-> Get(vd, "title", task.title),
     description |-> Get(vd, "description", NoText)]

\* TaskSerializer.update, lines 73-77: the Task row after instance.save()
TaskSerializer_update_fields(task, vd) ==
    [user |-> task.user,
     title |-> Get(vd, "title", task.title),
     description |-> Get(vd, "description", task.description)]

\* lines 91-92 left out: the Todo keeps the task reference it had
TaskSerializer_update_existing_keep_task(td, d, t) ==
    [td EXCEPT ![d.id] = [user |-> Get(d, "user", @.user),
                          task |-> Get(d, "task", @.task),
                          title |-> Get(d, "title", @.title),
                          tags |-> Get(d, "tags", @.tags),
                          description |-> Get(d, "description", @.description),
                          completed |-> Get(d, "completed", @.completed),
                          due_date |-> Get(d, "due_date", @.due_date)]]

\* instance.todos.set([todo]) in place of instance.todos.add(todo): the
\* other Todos of the Task are detached
TaskSerializer_update_existing_replace(td, d, t) ==
    [i \in DOMAIN td |->
        IF i = d.id
        THEN [user |-> Get(d, "user", td[i].user),
              task |-> t,
              title |-> Get(d, "title", td[i].title),
              tags |-> Get(d, "tags", td[i].tags),
              description |-> Get(d, "description", td[i].description),
              completed |-> Get(d, "completed", td[i].completed),
              due_date |-> Get(d, "due_date", td[i].due_date)]
        ELSE IF td[i].task = t THEN [td[i] EXCEPT !.task = NoTask]
        ELSE td[i]]

\* TaskSerializer.update, lines 85-92: the Todo found by (id, user=requester)
\* after setattr of every descriptor field but id, save() and todos.add()
TaskSerializer_update_existing(td, d, t) ==
    LET saved == [user |-> Get(d, "user", td[d.id].user),
                  task |-> Get(d, "task", td[d.id].task),
                  title |-> Get(d, "title", td[d.id].title),
                  tags |-> Get(d, "tags", td[d.id].tags),
                  description |-> Get(d, "description", td[d.id].description),
                  completed |-> Get(d, "completed", td[d.id].completed),
                  due_date |-> Get(d, "due_date", td[d.id].due_date)]
        \* lines 91-92: todo not in instance.todos.all() => todos.add(todo)
        added == IF saved.task # t THEN [saved EXCEPT !.task = t] ELSE saved
    IN  [td EXCEPT ![d.id] = added]

\* TaskSerializer.update, line 98: Todo.objects.create(**descriptor - id)
TaskSerializer_update_create(d) == Todo_objects_create(Drop(d, {"id"}))

\* Model.save() of a Todo read earlier: every column of the row is written,
\* by UPDATE where the key still exists and by INSERT where it does not; the
\* store refuses a task reference to a Task that is not there
Todo_save(tk, td, i, row) ==
    IF row.task = NoTask \/ row.task \in DOMAIN tk
    THEN Put(td, i, row)
    ELSE td

\* TaskSerializer.update, lines 87-89: setattr of every descriptor field but
\* id on the Todo that line 85 read
TaskSerializer_update_setattr(row, d) ==
    [user |-> Get(d, "user", row.user),
     task |-> Get(d, "task", row.task),
     title |-> Get(d, "title", row.title),
     tags |-> Get(d, "tags", row.tags),
     description |-> Get(d, "description", row.description),
     completed |-> Get(d, "completed", row.completed),
     due_date |-> Get(d, "due_date", row.due_date)]

\* TaskSerializer.update, lines 91-92: instance.todos.add(todo) writes the
\* task column of the row, unless the row is under the Task already
Task_todos_add(tk, td, i, t) ==
    IF i \notin DOMAIN td \/ td[i].task = t \/ t \notin DOMAIN tk
    THEN td
    ELSE [td EXCEPT ![i].task = t]

\* TaskViewSet.perform_destroy, lines 59-62: the first of its two deletes
TaskViewSet_perform_destroy_todos(td, u, t) ==
    Drop(td, IF is_superuser(u) THEN task_todos(td, t)
             ELSE {i \in task_todos(td, t) : td[i].user = u})

\* TaskSerializer.update, lines 80-101, run to its end on store td with seq
\* the last Todo id given out: the todos table it leaves
RECURSIVE TaskSerializer_update_loop(_, _, _, _, _)
TaskSerializer_update_loop(td, seq, u, t, ds) ==
    IF ds = <<>> THEN td
    ELSE LET d == Head(ds)
             todo_id == Get(d, "id", 0)
         IN  IF todo_id # 0
             THEN IF todo_id \in DOMAIN td /\ td[todo_id].user = u
                  THEN TaskSerializer_update_loop(
                           TaskSerializer_update_existing(td, d, t),
                           seq, u, t, Tail(ds))
                  ELSE TaskSerializer_update_loop(td, seq, u, t, Tail(ds))
             ELSE \* line 98 creates, line 100 raises: the loop ends
                  Put(td, seq + 1, TaskSerializer_update_create(d))

\* RetrieveModelMixin.retrieve over get_object(): a record outside
\* get_queryset() is Http404, whether or not it exists
TaskViewSet_retrieve(tk, td, u, t, q) ==
    IF t \in TaskViewSet_get_queryset(tk, u)
    THEN [status |-> 200,
          body |-> TaskSerializer_to_representation(tk, td, u, t, q)]
    ELSE [status |-> 404, body |-> NotFound]

\* an object-level permission check in place of the scoped queryset
TodoViewSet_retrieve_forbidden(tk, td, u, i) ==
    IF i \in TodoViewSet_get_queryset(td, u)
    THEN [status |-> 200, body |-> TodoSerializer_to_representation(tk, td, i)]
    ELSE IF i \in DOMAIN td
    THEN [status |-> 403, body |-> [detail |-> "Forbidden."]]
    ELSE [status |-> 404, body |-> NotFound]

TodoViewSet_retrieve(tk, td, u, i) ==
    IF i \in TodoViewSet_get_queryset(td, u)
    THEN [status |-> 200, body |-> TodoSerializer_to_representation(tk, td, i)]
    ELSE [status |-> 404, body |-> NotFound]

TaskListBody(tk, td, u, q) ==
    LET ids == order_by_created_desc(TaskViewSet_get_queryset(tk, u))
    IN  [k \in DOMAIN ids |->
            TaskSerializer_to_representation(tk, td, u, ids[k], q)]

TodoListBody(tk, td, u) ==
    LET ids == order_by_created_desc(TodoViewSet_get_queryset(td, u))
    IN  [k \in DOMAIN ids |-> TodoSerializer_to_representation(tk, td, ids[k])]

----------------------------------------------------------------------------
(* Task endpoints *)

TaskList(u, q) ==
    /\ Idle
    /\ UNCHANGED <<users, inflight>>
    /\ resp' = WithQuery(Response("task_list", u, 0, Empty, 200,
                                  TaskListBody(tasks, todos, u, q)), q)
    /\ UNCHANGED <<tasks, todos, taskSeq, todoSeq, upd, tokens, logins>>

TaskRetrieve(u, t, q) ==
    /\ Idle
    /\ UNCHANGED <<users, inflight>>
    /\ resp' = WithQuery(Response("task_retrieve", u, t, Empty,
                   TaskViewSet_retrieve(tasks, todos, u, t, q).status,
                   TaskViewSet_retrieve(tasks, todos, u, t, q).body), q)
    /\ UNCHANGED <<tasks, todos, taskSeq, todoSeq, upd, tokens, logins>>

TaskCreate(u, p, q) ==
    /\ Idle
    /\ UNCHANGED <<users, inflight>>
    /\ IF ~TaskSerializer_is_valid(p, FALSE)
       THEN /\ resp' = WithQuery(
                         Response("task_create", u, 0, p, 400, Invalid), q)
            /\ UNCHANGED <<tasks, taskSeq>>
       ELSE /\ taskSeq < MaxTasks
            /\ taskSeq' = taskSeq + 1
            /\ tasks' = Put(tasks, taskSeq', TaskSerializer_create(p, u))
            /\ resp' = WithQuery(Response("task_create", u, taskSeq', p, 201,
                          TaskSerializer_to_representation(
                              tasks', todos, u, taskSeq', q)), q)
    /\ UNCHANGED <<todos, todoSeq, upd, tokens, logins>>

TaskDestroy(u, t) ==
    /\ Idle
    /\ UNCHANGED <<users, inflight>>
    /\ IF t \notin TaskViewSet_get_queryset(tasks, u)
       THEN /\ resp' = Response("task_destroy", u, t, Empty, 404, NotFound)
            /\ UNCHANGED <<tasks, todos>>
       ELSE /\ todos' = TaskViewSet_perform_destroy(todos, u, t)
            /\ tasks' = Drop(tasks, {t})
            /\ resp' = Response("task_destroy", u, t,
                 "todo_owners" :> {todos[i].user : i \in task_todos(todos, t)},
                 204, Empty)
    /\ UNCHANGED <<taskSeq, todoSeq, upd, tokens, logins>>

\* PUT (partial = FALSE) and PATCH (partial = TRUE) /tasks/{id}/: the
\* validated data never holds todos, so the loop of update() has no iteration
TaskUpdate(u, t, partial, p, q) ==
    /\ Idle
    /\ UNCHANGED <<users, inflight>>
    /\ IF t \notin TaskViewSet_get_queryset(tasks, u)
       THEN /\ resp' = Response("task_update", u, t, Empty, 404, NotFound)
            /\ UNCHANGED tasks
       ELSE IF ~TaskSerializer_is_valid(p, partial)
       THEN /\ resp' = Response("task_update", u, t, Empty, 400, Invalid)
            /\ UNCHANGED tasks
       ELSE /\ tasks' = [tasks EXCEPT ![t] = TaskSerializer_update_fields(
                                     @, TaskSerializer_validated_data(p))]
            /\ resp' = WithQuery(Response("task_update", u, t, p, 200,
                          TaskSerializer_to_representation(
                              tasks', todos, u, t, q)), q)
    /\ UNCHANGED <<todos, taskSeq, todoSeq, upd, tokens, logins>>

\* serializer.update(task, validated) called with the todos list put into the
\* validated data, as tests/test_task_serializer_update.py does: lines 71-77,
\* the loop over todos_data follows
SerializerUpdate(u, t, vd) ==
    /\ Idle
    /\ UNCHANGED <<users, inflight>>
    /\ t \in TaskViewSet_get_queryset(tasks, u)
    /\ (\E k \in DOMAIN Get(vd, "todos", <<>>) : "id" \notin DOMAIN vd.todos[k])
          => todoSeq < MaxTodos
    /\ tasks' = [tasks EXCEPT ![t] = TaskSerializer_update_fields(@, vd)]
    /\ upd' = [pc |-> "loop", user |-> u, task |-> t,
               instance |-> tasks'[t],
               queue |-> Get(vd, "todos", <<>>),
               data |-> vd, pre |-> todos, log |-> <<>>]
    /\ UNCHANGED <<todos, taskSeq, todoSeq, resp, tokens, logins>>

\* one iteration of the loop of TaskSerializer.update (lines 80-101)
UpdateStep ==
    /\ upd.pc = "loop"
    /\ UNCHANGED <<users, inflight>>
    /\ upd.queue # <<>>
    /\ LET d == Head(upd.queue)
           todo_id == Get(d, "id", 0)
       IN  IF todo_id # 0
           THEN IF todo_id \in DOMAIN todos /\ todos[todo_id].user = upd.user
                THEN IF upd.task \in DOMAIN tasks
                     THEN /\ todos' = TaskSerializer_update_existing(
                                          todos, d, upd.task)
                          /\ upd' = [upd EXCEPT !.queue = Tail(@),
                                                !.log = Append(@, "updated")]
                          /\ UNCHANGED <<todoSeq, resp>>
                     ELSE \* the Task was deleted since the update began:
                          \* todo.save() writes, todos.add() is refused
                          /\ todos' = Todo_save(tasks, todos, todo_id,
                                 TaskSerializer_update_setattr(todos[todo_id],
                                                               d))
                          /\ upd' = IdleUpd
                          /\ resp' = Response("serializer_update", upd.user,
                                 upd.task, upd.data, 500, "IntegrityError")
                          /\ UNCHANGED todoSeq
                ELSE \* Todo.DoesNotExist: continue
                     /\ upd' = [upd EXCEPT !.queue = Tail(@),
                                           !.log = Append(@, "skipped")]
                     /\ UNCHANGED <<todos, todoSeq, resp>>
           ELSE \* line 98 creates the row; line 100 calls .add on the
                \* value of the ForeignKey Todo.user: AttributeError
                /\ todoSeq' = todoSeq + 1
                /\ todos' = Put(todos, todoSeq', TaskSerializer_update_create(d))
                /\ upd' = IdleUpd
                /\ resp' = Response("serializer_update", upd.user, upd.task,
                                    upd.data, 500, "AttributeError")
    /\ UNCHANGED <<tasks, taskSeq, tokens, logins>>

\* line 103 and the response of the view
UpdateReturn ==
    /\ upd.pc = "loop"
    /\ UNCHANGED <<users, inflight>>
    /\ upd.queue = <<>>
    /\ resp' = Response("serializer_update", upd.user, upd.task, upd.data,
         200, TaskSerializer_to_representation(
                  Put(tasks, upd.task, upd.instance), todos, upd.user,
                  upd.task, NoParam))
    /\ upd' = IdleUpd
    /\ UNCHANGED <<tasks, todos, taskSeq, todoSeq, tokens, logins>>

----------------------------------------------------------------------------
(* Todo endpoints *)

TodoList(u) ==
    /\ Idle
    /\ UNCHANGED <<users, inflight>>
    /\ resp' = Response("todo_list", u, 0, Empty, 200,
                        TodoListBody(tasks, todos, u))
    /\ UNCHANGED <<tasks, todos, taskSeq, todoSeq, upd, tokens, logins>>

TodoRetrieve(u, i) ==
    /\ Idle
    /\ UNCHANGED <<users, inflight>>
    /\ resp' = Response("todo_retrieve", u, i, Empty,
                        TodoViewSet_retrieve(tasks, todos, u, i).status,
                        TodoViewSet_retrieve(tasks, todos, u, i).body)
    /\ UNCHANGED <<tasks, todos, taskSeq, todoSeq, upd, tokens, logins>>

TodoCreate(u, p) ==
    /\ Idle
    /\ UNCHANGED <<users, inflight>>
    /\ IF ~TodoSerializer_is_valid(tasks, p, FALSE)
       THEN /\ resp' = Response("todo_create", u, 0, p, 400, Invalid)
            /\ UNCHANGED <<todos, todoSeq>>
       ELSE /\ todoSeq < MaxTodos
            /\ todoSeq' = todoSeq + 1
            /\ todos' = Put(todos, todoSeq', TodoSerializer_create(p, u))
            /\ resp' = Response("todo_create", u, todoSeq', p, 201,
                 TodoSerializer_to_representation(tasks, todos', todoSeq'))
    /\ UNCHANGED <<tasks, taskSeq, upd, tokens, logins>>

TodoUpdate(u, i, partial, p) ==
    /\ Idle
    /\ UNCHANGED <<users, inflight>>
    /\ IF i \notin TodoViewSet_get_queryset(todos, u)
       THEN /\ resp' = Response("todo_update", u, i, Empty, 404, NotFound)
            /\ UNCHANGED todos
       ELSE IF ~TodoSerializer_is_valid(tasks, p, partial)
       THEN /\ resp' = Response("todo_update", u, i, Empty, 400, Invalid)
            /\ UNCHANGED todos
       ELSE /\ todos' = [todos EXCEPT ![i] = TodoSerializer_update(@, p)]
            /\ resp' = Response("todo_update", u, i, p, 200,
                 TodoSerializer_to_representation(tasks, todos', i))
    /\ UNCHANGED <<tasks, taskSeq, todoSeq, upd, tokens, logins>>

TodoDestroy(u, i) ==
    /\ Idle
    /\ UNCHANGED <<users, inflight>>
    /\ IF i \notin TodoViewSet_get_queryset(todos, u)
       THEN /\ resp' = Response("todo_destroy", u, i, Empty, 404, NotFound)
            /\ UNCHANGED todos
       ELSE /\ todos' = Todo_delete(todos, i)
            /\ resp' = Response("todo_destroy", u, i, Empty, 204, Empty)
    /\ UNCHANGED <<tasks, taskSeq, todoSeq, upd, tokens, logins>>

\* the response leaves the server; nothing of the request remains
SendResponse ==
    /\ upd.pc = "idle"
    /\ UNCHANGED <<users, inflight>>
    /\ resp # NoResponse
    /\ resp' = NoResponse
    /\ UNCHANGED <<tasks, todos, taskSeq, todoSeq, upd, tokens, logins>>

----------------------------------------------------------------------------
(* Authentication: LoginView, ValidateTokenView and the token table.  A    *)
(* Token row is (key, user); tokens[k] is the user of the token with key k *)

\* the user table: username |-> password
Accounts == [u1 |-> "pw1", u2 |-> "pw2", admin |-> "pw0"]

\* django.contrib.auth.authenticate: the user, or None
authenticate(username, password) ==
    IF username \in DOMAIN Accounts /\ Accounts[username] = password
    THEN username ELSE NoUser

\* POST /auth/login/ bodies: each of the two fields missing, empty or given
LoginData ==
    {u @@ p : u \in {Empty} \cup Field("username", {"", "u1", "u2", "nobody"}),
              p \in {Empty} \cup Field("password", {"", "pw1", "pw2"})}

\* the test `if username and password` left out: authenticate runs on
\* whatever the body holds
LoginView_post_no_presence_test(data) ==
    LET user == authenticate(Get(data, "username", ""),
                             Get(data, "password", ""))
    IN  IF user # NoUser
        THEN [status |-> 200, user |-> user, body |-> Empty]
        ELSE [status |-> 401, user |-> NoUser,
              body |-> [error |-> "Invalid credentials"]]

\* LoginView.post, lines 36-55, up to get_or_create: None and "" are falsy
LoginView_post(data) ==
    LET username == Get(data, "username", "")
        password == Get(data, "password", "")
    IN  IF username # "" /\ password # ""
        THEN IF authenticate(username, password) # NoUser
             THEN [status |-> 200, user |-> authenticate(username, password),
                   body |-> Empty]
             ELSE [status |-> 401, user |-> NoUser,
                   body |-> [error |-> "Invalid credentials"]]
        ELSE [status |-> 400, user |-> NoUser,
              body |-> [error |-> "Username and password required"]]

\* the keys of the tokens of a user
Token_keys(tk, user) == {k \in DOMAIN tk : tk[k] = user}

\* Token.user without its unique constraint: create always inserts
Token_objects_create_not_unique(tk, user) == Append(tk, user)

\* the create of get_or_create: Token.user is one-to-one, so the insert
\* fails when the user has a token (IntegrityError, then get)
Token_objects_create(tk, user) ==
    IF Token_keys(tk, user) # {} THEN tk ELSE Append(tk, user)

\* line 43-47
LoginView_post_success(tk, user) ==
    [token |-> MaxOf(Token_keys(tk, user)), username |-> user]

\* POST /auth/login/ by client c.  A rejected login reads the request and
\* the user table only and is answered at once; an accepted one goes on to
\* get_or_create, whose two queries interleave with those of other logins
LoginPost(c, data) ==
    /\ StoreIdle
    /\ UNCHANGED <<users, inflight>>
    /\ logins[c].pc = "idle"
    /\ LET r == LoginView_post(data)
       IN  IF r.status = 200
           THEN /\ logins' = [logins EXCEPT ![c] =
                      [pc |-> "get", data |-> data, user |-> r.user,
                       status |-> 0, body |-> Empty]]
                /\ UNCHANGED resp
           ELSE /\ Idle
                /\ resp' = Response("login", NoUser, 0, data, r.status, r.body)
                /\ UNCHANGED logins
    /\ UNCHANGED <<tasks, todos, taskSeq, todoSeq, upd, tokens>>

\* get_or_create, the get
TokenGet(c) ==
    /\ logins[c].pc = "get"
    /\ UNCHANGED <<users, inflight>>
    /\ LET l == logins[c]
       IN  logins' = [logins EXCEPT ![c] =
              IF Token_keys(tokens, l.user) # {}
              THEN [l EXCEPT !.pc = "done", !.status = 200,
                             !.body = LoginView_post_success(tokens, l.user)]
              ELSE [l EXCEPT !.pc = "create"]]
    /\ UNCHANGED <<tasks, todos, taskSeq, todoSeq, upd, resp, tokens>>

\* get_or_create, the create after the get found nothing
TokenCreate(c) ==
    /\ logins[c].pc = "create"
    /\ UNCHANGED <<users, inflight>>
    /\ tokens' = Token_objects_create(tokens, logins[c].user)
    /\ LET l == logins[c]
       IN  logins' = [logins EXCEPT ![c] =
              [l EXCEPT !.pc = "done", !.status = 200,
                        !.body = LoginView_post_success(tokens', l.user)]]
    /\ UNCHANGED <<tasks, todos, taskSeq, todoSeq, upd, resp>>

\* the login response leaves the server
LoginRespond(c) ==
    /\ logins[c].pc = "done"
    /\ UNCHANGED <<users, inflight>>
    /\ logins' = [logins EXCEPT ![c] = IdleLogin]
    /\ UNCHANGED <<tasks, todos, taskSeq, todoSeq, upd, resp, tokens>>

\* a request without Authorization header
NoCred == 0

\* the Authorization headers sent: none, or Token <key>
Creds == {NoCred} \cup 1..Cardinality(DOMAIN Accounts)

\* TokenAuthentication: the user of the token row, if there is one
TokenAuthentication_authenticate(tk, cred) ==
    IF cred \in DOMAIN tk THEN tk[cred] ELSE NoUser

\* permission_classes = [AllowAny]
AllowAny(user) == TRUE

\* permission_classes = [IsAuthenticated]
IsAuthenticated(user) == user # NoUser

NotAuthenticated == [detail |-> "Authentication credentials were not provided."]

\* APIView.initial before the handler: authentication, then permissions
request_user(cred) == TokenAuthentication_authenticate(tokens, cred)

\* the permission is denied: the handler does not run
PermissionDenied(cred, op, id) ==
    /\ Idle
    /\ UNCHANGED <<users, inflight>>
    /\ resp' = Response(op, NoUser, id, "credential" :> cred,
                        401, NotAuthenticated)
    /\ UNCHANGED <<tasks, todos, taskSeq, todoSeq, upd, tokens, logins>>

\* ValidateTokenView.get
ValidateToken(u) ==
    /\ Idle
    /\ UNCHANGED <<users, inflight>>
    /\ resp' = Response("validate", u, 0, Empty, 200,
                        [valid |-> TRUE, username |-> u])
    /\ UNCHANGED <<tasks, todos, taskSeq, todoSeq, upd, tokens, logins>>

----------------------------------------------------------------------------
(* The HTTP API *)

Next ==
    \/ Idle /\ \E u \in Users, q \in QueryValues : TaskList(u, q)
    \/ Idle /\ \E u \in Users, t \in TaskIds, q \in QueryValues :
                  TaskRetrieve(u, t, q)
    \/ Idle /\ \E u \in Users, p \in TaskCreatePayloads, q \in QueryValues :
                  TaskCreate(u, p, q)
    \/ Idle /\ \E u \in Users, t \in TaskIds : TaskDestroy(u, t)
    \/ Idle /\ \E u \in Users, t \in TaskIds, partial \in BOOLEAN,
                  p \in TaskUpdatePayloads, q \in QueryValues :
                  TaskUpdate(u, t, partial, p, q)
    \/ Idle /\ \E u \in Users : TodoList(u)
    \/ Idle /\ \E u \in Users, i \in TodoIds : TodoRetrieve(u, i)
    \/ Idle /\ \E u \in Users, p \in TodoCreatePayloads : TodoCreate(u, p)
    \/ Idle /\ \E u \in Users, i \in TodoIds, partial \in BOOLEAN,
                  p \in TodoUpdatePayloads : TodoUpdate(u, i, partial, p)
    \/ Idle /\ \E u \in Users, i \in TodoIds : TodoDestroy(u, i)
    \/ SendResponse

Spec == Init /\ [][Next]_vars

----------------------------------------------------------------------------
(* TaskSerializer.update with nested Todo descriptors, on stores built       *)
(* through the create endpoints                                             *)

Tenants == {"u1", "u2"}

\* POST /todos/ bodies that build the stores: standalone or under a Task
ReconTodoPayloads ==
    {("title" :> "a") @@ k : k \in {Empty} \cup Field("task", TaskIds)}

NextRecon ==
    \/ Idle /\ \E u \in Tenants : TaskCreate(u, "title" :> "a", NoParam)
    \/ Idle /\ \E u \in Tenants, p \in ReconTodoPayloads : TodoCreate(u, p)
    \/ Idle /\ \E u \in Tenants, t \in TaskIds, vd \in SerializerUpdateData :
                  SerializerUpdate(u, t, vd)
    \/ UpdateStep
    \/ UpdateReturn
    \/ SendResponse

SpecRecon == Init /\ [][NextRecon]_vars

----------------------------------------------------------------------------
(* The three ways a Todo row comes to be: POST /todos/, Todo.objects.create *)
(* and a descriptor without id in TaskSerializer.update                     *)

\* tags left out, given, or given as the empty list
TagChoices == {Empty} \cup Field("tags", {<<"x">>, <<>>})

\* Todo.objects.create(**fields) called directly, as tests/test_models.py does
TodoModelCreate(fields) ==
    /\ Idle
    /\ UNCHANGED <<users, inflight>>
    /\ todoSeq < MaxTodos
    /\ todoSeq' = todoSeq + 1
    /\ todos' = Put(todos, todoSeq', Todo_objects_create(fields))
    /\ resp' = Response("model_create", NoUser, todoSeq', fields, 0, Empty)
    /\ UNCHANGED <<tasks, taskSeq, upd, tokens, logins>>

TagDescriptors ==
    {("title" :> "b") @@ g : g \in TagChoices}
    \cup {("id" :> i) @@ ("tags" :> <<"y">>) : i \in TodoIds}

NextTags ==
    \/ Idle /\ \E u \in Tenants : TaskCreate(u, "title" :> "a", NoParam)
    \/ Idle /\ \E u \in Tenants, g \in TagChoices,
                  k \in {Empty} \cup Field("task", TaskIds) :
                  TodoCreate(u, ("title" :> "a") @@ g @@ k)
    \/ Idle /\ \E u \in Tenants, g \in TagChoices :
                  TodoModelCreate(("title" :> "a") @@ ("user" :> u) @@ g)
    \/ Idle /\ \E u \in Tenants, t \in TaskIds,
                  ds \in SeqsUpTo(TagDescriptors, MaxDescs) :
                  SerializerUpdate(u, t, "todos" :> ds)
    \/ UpdateStep
    \/ UpdateReturn
    \/ SendResponse

SpecTags == Init /\ [][NextTags]_vars

----------------------------------------------------------------------------
(* Login and the endpoints behind the token check *)

NextAuth ==
    \/ \E c \in Clients, data \in LoginData : LoginPost(c, data)
    \/ \E c \in Clients : TokenGet(c)
    \/ \E c \in Clients : TokenCreate(c)
    \/ \E c \in Clients : LoginRespond(c)
    \/ Idle /\ \E cred \in Creds :
          IF IsAuthenticated(request_user(cred))
          THEN ValidateToken(request_user(cred))
          ELSE PermissionDenied(cred, "validate", 0)
    \/ Idle /\ \E cred \in Creds :
          IF IsAuthenticated(request_user(cred))
          THEN TaskList(request_user(cred), NoParam)
          ELSE PermissionDenied(cred, "task_list", 0)
    \/ Idle /\ \E cred \in Creds, t \in TaskIds :
          IF IsAuthenticated(request_user(cred))
          THEN TaskRetrieve(request_user(cred), t, NoParam)
          ELSE PermissionDenied(cred, "task_retrieve", t)
    \/ Idle /\ \E cred \in Creds :
          IF IsAuthenticated(request_user(cred))
          THEN TaskCreate(request_user(cred), "title" :> "a", NoParam)
          ELSE PermissionDenied(cred, "task_create", 0)
    \/ Idle /\ \E cred \in Creds, t \in TaskIds :
          IF IsAuthenticated(request_user(cred))
          THEN TaskDestroy(request_user(cred), t)
          ELSE PermissionDenied(cred, "task_destroy", t)
    \/ Idle /\ \E cred \in Creds, t \in TaskIds :
          IF IsAuthenticated(request_user(cred))
          THEN TaskUpdate(request_user(cred), t, TRUE, "title" :> "b", NoParam)
          ELSE PermissionDenied(cred, "task_update", t)
    \/ Idle /\ \E cred \in Creds :
          IF IsAuthenticated(request_user(cred))
          THEN TodoList(request_user(cred))
          ELSE PermissionDenied(cred, "todo_list", 0)
    \/ Idle /\ \E cred \in Creds, i \in TodoIds :
          IF IsAuthenticated(request_user(cred))
          THEN TodoRetrieve(request_user(cred), i)
          ELSE PermissionDenied(cred, "todo_retrieve", i)
    \/ Idle /\ \E cred \in Creds, k \in {Empty} \cup Field("task", TaskIds) :
          IF IsAuthenticated(request_user(cred))
          THEN TodoCreate(request_user(cred), ("title" :> "a") @@ k)
          ELSE PermissionDenied(cred, "todo_create", 0)
    \/ Idle /\ \E cred \in Creds, i \in TodoIds :
          IF IsAuthenticated(request_user(cred))
          THEN TodoUpdate(request_user(cred), i, TRUE, "title" :> "a")
          ELSE PermissionDenied(cred, "todo_update", i)
    \/ Idle /\ \E cred \in Creds, i \in TodoIds :
          IF IsAuthenticated(request_user(cred))
          THEN TodoDestroy(request_user(cred), i)
          ELSE PermissionDenied(cred, "todo_destroy", i)
    \/ SendResponse

SpecAuth == Init /\ [][NextAuth]_vars

----------------------------------------------------------------------------
(* Properties of the HTTP API (Spec) *)

BodyIds(body) == {body[k].id : k \in DOMAIN body}

Owned(tbl, u) == {i \in DOMAIN tbl : tbl[i].user = u}

\* a request has just been answered
Answered(ops) == resp = NoResponse /\ resp'.op \in ops

\* C1: a list of Tasks (of Todos) holds exactly the records owned by the
\* requester, each once; for a superuser it holds every record of that type.
C1_ListScope ==
    /\ resp.op = "task_list" =>
          /\ BodyIds(resp.body) = IF is_superuser(resp.user) THEN DOMAIN tasks
                                  ELSE Owned(tasks, resp.user)
          /\ Cardinality(DOMAIN resp.body) = Cardinality(BodyIds(resp.body))
    /\ resp.op = "todo_list" =>
          /\ BodyIds(resp.body) = IF is_superuser(resp.user) THEN DOMAIN todos
                                  ELSE Owned(todos, resp.user)
          /\ Cardinality(DOMAIN resp.body) = Cardinality(BodyIds(resp.body))

C1_Witness ==
    /\ resp.op = "task_list"
    /\ ~is_superuser(resp.user)
    /\ Owned(tasks, resp.user) # {}
    /\ Owned(tasks, resp.user) # DOMAIN tasks
    /\ BodyIds(resp.body) = Owned(tasks, resp.user)

\* C2: GET of an existing Task or Todo by a non-superuser who does not own it
\* is answered 404 (not 403, not the record), with the very response an id
\* that does not exist gets.
C2_DetailNotFound ==
    /\ (/\ resp.op = "task_retrieve"
        /\ resp.id \in DOMAIN tasks
        /\ tasks[resp.id].user # resp.user
        /\ ~is_superuser(resp.user))
          => /\ resp.status = 404
             /\ [status |-> resp.status, body |-> resp.body] =
                  TaskViewSet_retrieve(tasks, todos, resp.user, MaxTasks + 1,
                                       resp.query)
    /\ (/\ resp.op = "todo_retrieve"
        /\ resp.id \in DOMAIN todos
        /\ todos[resp.id].user # resp.user
        /\ ~is_superuser(resp.user))
          => /\ resp.status = 404
             /\ [status |-> resp.status, body |-> resp.body] =
                  TodoViewSet_retrieve(tasks, todos, resp.user, MaxTodos + 1)

C2_Witness ==
    /\ resp.op = "todo_retrieve"
    /\ resp.id \in DOMAIN todos
    /\ todos[resp.id].user # resp.user
    /\ ~is_superuser(resp.user)
    /\ resp.status = 404

\* C3: DELETE, PUT or PATCH by a non-superuser on a Task or Todo of another
\* user is answered 404 and changes nothing: both tables are as before.
C3_ForeignWriteRejected ==
    [][ /\ (/\ Answered({"task_destroy", "task_update"})
            /\ resp'.id \in DOMAIN tasks
            /\ tasks[resp'.id].user # resp'.user
            /\ ~is_superuser(resp'.user))
              => resp'.status = 404 /\ tasks' = tasks /\ todos' = todos
        /\ (/\ Answered({"todo_destroy", "todo_update"})
            /\ resp'.id \in DOMAIN todos
            /\ todos[resp'.id].user # resp'.user
            /\ ~is_superuser(resp'.user))
              => resp'.status = 404 /\ tasks' = tasks /\ todos' = todos
      ]_vars

C3_Witness ==
    /\ resp.op = "task_destroy"
    /\ resp.status = 404
    /\ ~is_superuser(resp.user)
    /\ resp.id \in DOMAIN tasks
    /\ tasks[resp.id].user # resp.user
    /\ task_todos(todos, resp.id) # {}

\* C4: DELETE of a Task by its owner or by a superuser succeeds and removes
\* the Task and every Todo that referred to it, whoever owns the Todo.
C4_TaskDeleteCascades ==
    [][ (/\ Answered({"task_destroy"})
         /\ resp'.id \in DOMAIN tasks
         /\ (tasks[resp'.id].user = resp'.user \/ is_superuser(resp'.user)))
          => /\ resp'.status = 204
             /\ resp'.id \notin DOMAIN tasks'
             /\ \A i \in DOMAIN todos :
                   todos[i].task = resp'.id => i \notin DOMAIN todos'
             /\ \A i \in DOMAIN todos' : todos'[i].task # resp'.id
      ]_vars

C4_Witness ==
    /\ resp.op = "task_destroy"
    /\ resp.status = 204
    /\ ~is_superuser(resp.user)
    /\ resp.data.todo_owners \ {resp.user} # {}
    /\ resp.user \in resp.data.todo_owners
    /\ resp.id \notin DOMAIN tasks
    /\ todos = Empty

\* C5: a Task or Todo created through POST is owned by the requester,
\* whatever user the payload names.
C5_OwnerIsRequester ==
    [][ /\ (Answered({"task_create"}) /\ resp'.status = 201)
              => /\ DOMAIN tasks' = DOMAIN tasks \cup {resp'.id}
                 /\ resp'.id \notin DOMAIN tasks
                 /\ tasks'[resp'.id].user = resp'.user
        /\ (Answered({"todo_create"}) /\ resp'.status = 201)
              => /\ DOMAIN todos' = DOMAIN todos \cup {resp'.id}
                 /\ resp'.id \notin DOMAIN todos
                 /\ todos'[resp'.id].user = resp'.user
      ]_vars

C5_Witness ==
    /\ resp.op = "todo_create"
    /\ resp.status = 201
    /\ "user" \in DOMAIN resp.data
    /\ resp.data.user # resp.user
    /\ todos[resp.id].user = resp.user

----------------------------------------------------------------------------
(* Properties of login and of the token check (SpecAuth) *)

Falsy(data, k) == k \notin DOMAIN data \/ data[k] = ""

Malformed(data) == Falsy(data, "username") \/ Falsy(data, "password")

Matches(data) ==
    /\ ~Malformed(data)
    /\ data.username \in DOMAIN Accounts
    /\ Accounts[data.username] = data.password

\* C15: a login with username or password missing or empty is answered
\* 400 'Username and password required', also when the other field would
\* match; with both present and no match 401 'Invalid credentials'; a
\* token is handed out only to a login whose two fields are present and
\* match; a rejected login leaves the token table as it was.
C15_LoginOutcomes ==
    /\ [](/\ resp.op = "login" =>
              /\ ~Matches(resp.data)
              /\ Malformed(resp.data) =>
                    /\ resp.status = 400
                    /\ resp.body = [error |-> "Username and password required"]
              /\ ~Malformed(resp.data) =>
                    /\ resp.status = 401
                    /\ resp.body = [error |-> "Invalid credentials"]
           /\ \A c \in Clients : logins[c].pc # "idle" =>
                 /\ Matches(logins[c].data)
                 /\ logins[c].user = logins[c].data.username
                 /\ logins[c].pc = "done" =>
                       /\ logins[c].status = 200
                       /\ logins[c].body.token \in
                             Token_keys(tokens, logins[c].user))
    /\ [][resp'.op = "login" /\ resp.op # "login" => tokens' = tokens]_vars

C15_Witness ==
    /\ resp.op = "login"
    /\ resp.status = 400
    /\ "username" \in DOMAIN resp.data
    /\ resp.data.username = "u1"
    /\ "password" \in DOMAIN resp.data
    /\ resp.data.password = ""
    /\ Token_keys(tokens, "u1") # {}

\* C16: every user has at most one token at any time; a login is answered
\* with the token of its user; tokens are never removed or rebound, and a
\* login of a user who has a token leaves the token table unchanged, so all
\* logins of a user, sequential or interleaved, return one and the same key.
C16_OneTokenPerUser ==
    /\ [](/\ \A u \in DOMAIN Accounts :
                 Cardinality(Token_keys(tokens, u)) <= 1
           /\ \A c \in Clients : logins[c].pc = "done" =>
                 Token_keys(tokens, logins[c].user) = {logins[c].body.token})
    /\ [][/\ \A k \in DOMAIN tokens :
                 k \in DOMAIN tokens' /\ tokens'[k] = tokens[k]
           /\ \A c \in Clients :
                 (/\ logins[c].pc \in {"get", "create"}
                  /\ logins'[c].pc = "done"
                  /\ Token_keys(tokens, logins[c].user) # {})
                    => tokens' = tokens]_vars

\* both logins of one user found no token; the first has created it and the
\* second, whose insert failed, is answered with the same key
C16_Witness ==
    /\ logins["c1"].pc = "done"
    /\ logins["c2"].pc = "done"
    /\ logins["c1"].user = logins["c2"].user
    /\ logins["c1"].body.token = logins["c2"].body.token
    /\ Len(tokens) = 2
    /\ tokens[2] = logins["c1"].user

ProtectedOps ==
    {"validate", "task_list", "task_retrieve", "task_create", "task_destroy",
     "task_update", "todo_list", "todo_retrieve", "todo_create",
     "todo_update", "todo_destroy"}

\* C17: a request to a Task, Todo or validate endpoint whose credential
\* resolves to no user is answered 401 and leaves tasks, todos and tokens
\* as they were; an answer other than 401 goes to the holder of a token.
C17_Unauthenticated401 ==
    /\ [](resp.op \in ProtectedOps =>
             \/ resp.status = 401 /\ resp.user = NoUser
                   /\ resp.data.credential \notin DOMAIN tokens
             \/ resp.status # 401 /\ Token_keys(tokens, resp.user) # {})
    /\ [][(Answered(ProtectedOps) /\ resp'.user = NoUser)
             => /\ resp'.status = 401
                /\ tasks' = tasks /\ todos' = todos
                /\ taskSeq' = taskSeq /\ todoSeq' = todoSeq
                /\ tokens' = tokens]_vars

C17_Witness ==
    /\ resp.op = "task_destroy"
    /\ resp.status = 401
    /\ resp.data.credential # NoCred
    /\ tokens # <<>>
    /\ resp.id \in DOMAIN tasks
    /\ task_todos(todos, resp.id) # {}

----------------------------------------------------------------------------

\* the Task representations a response carries
TaskReps ==
    IF resp.op = "task_list" THEN Range(resp.body)
    ELSE IF resp.op \in {"task_retrieve", "task_create", "task_update"}
            /\ resp.status \in {200, 201}
    THEN {resp.body}
    ELSE {}

\* the requester's Todos under Task t in the current store
OwnTodosOf(t) ==
    {i \in DOMAIN todos : todos[i].task = t /\ todos[i].user = resp.user}

\* C12: every Task representation holds todos_count, the number of Todos
\* under the Task owned by the requester; 0 for a Task just created.
C12_TodosCount ==
    /\ \A r \in TaskReps :
          /\ "todos_count" \in DOMAIN r
          /\ r.todos_count = Cardinality(OwnTodosOf(r.id))
    /\ (resp.op = "task_create" /\ resp.status = 201)
          => resp.body.todos_count = 0

C12_Witness ==
    /\ resp.op = "task_retrieve"
    /\ resp.status = 200
    /\ resp.body.todos_count = 1
    /\ Cardinality(task_todos(todos, resp.id)) = 2

\* C13: unless include_todos has the enabling value, no Task representation
\* of any response (detail, list, create, update) has a todos key.
C13_TodosOmitted ==
    resp.query # "1" => \A r \in TaskReps : "todos" \notin DOMAIN r

C13_Witness ==
    /\ resp.op = "task_retrieve"
    /\ resp.status = 200
    /\ resp.query = "true"
    /\ OwnTodosOf(resp.id) # {}
    /\ "todos" \notin DOMAIN resp.body

\* C14: with include_todos set, the nested list holds exactly the Todos
\* under the Task that the requester owns, each once, also for a superuser.
C14_NestedTodosOwnOnly ==
    resp.query = "1" =>
        \A r \in TaskReps :
            /\ "todos" \in DOMAIN r
            /\ BodyIds(r.todos) = OwnTodosOf(r.id)
            /\ Cardinality(DOMAIN r.todos) = Cardinality(OwnTodosOf(r.id))

C14_Witness ==
    /\ resp.op = "task_retrieve"
    /\ resp.status = 200
    /\ resp.query = "1"
    /\ is_superuser(resp.user)
    /\ BodyIds(resp.body.todos) # {}
    /\ BodyIds(resp.body.todos) # task_todos(todos, resp.id)

\* C19: POST /tasks/ or POST /todos/ with the title missing or empty is
\* answered 400 and leaves both tables as they were; a Task that POST
\* /tasks/ creates has no Todo under it.
C19_CreateValidation ==
    [][ /\ (Answered({"task_create", "todo_create"})
             /\ Falsy(resp'.data, "title"))
              => /\ resp'.status = 400
                 /\ tasks' = tasks
                 /\ todos' = todos
        /\ (Answered({"task_create"}) /\ resp'.status = 201)
              => /\ resp'.id \in DOMAIN tasks' \ DOMAIN tasks
                 /\ task_todos(todos', resp'.id) = {}
      ]_vars

C19_Witness ==
    /\ resp.op = "task_create"
    /\ resp.status = 400
    /\ "title" \in DOMAIN resp.data
    /\ resp.data.title = ""
    /\ tasks # Empty
    /\ todos # Empty

\* C20: a list of Tasks or of Todos is ordered newest first: of two records
\* in it, the one created later (ids are given in creation order) comes
\* first, for plain users and for a superuser.
C20_NewestFirst ==
    resp.op \in {"task_list", "todo_list"} =>
        \A k, l \in DOMAIN resp.body :
            k < l => resp.body[k].id > resp.body[l].id

C20_Witness ==
    /\ resp.op = "todo_list"
    /\ is_superuser(resp.user)
    /\ Cardinality(DOMAIN resp.body) = 2
    /\ resp.body[1].id = 2
    /\ resp.body[1].user # resp.body[2].user

----------------------------------------------------------------------------
(* Properties of the reconciliation of TaskSerializer.update (SpecRecon) *)

\* the descriptor the loop is about to process
InLoop == upd.pc = "loop" /\ upd.queue # <<>>

Current == Head(upd.queue)

\* Todo.objects.get(id=todo_id, user=request.user) finds a row
Found(d) ==
    /\ "id" \in DOMAIN d
    /\ d.id \in DOMAIN todos
    /\ todos[d.id].user = upd.user

todos_data == Get(upd.data, "todos", <<>>)

\* ids named by the descriptors of the update in progress
NamedIds == {todos_data[k].id : k \in {j \in DOMAIN todos_data :
                                        "id" \in DOMAIN todos_data[j]}}

\* the update in progress ends with this step
Finishes == upd.pc = "loop" /\ upd'.pc = "idle"

\* C6: no operation changes the owner of a Todo that survives it, whatever
\* user the payload or descriptor carries.
C6_OwnerImmutable ==
    [][ \A i \in DOMAIN todos \cap DOMAIN todos' :
          todos'[i].user = todos[i].user ]_vars

\* C7: a descriptor whose id names a Todo of the requester has its fields
\* written onto that Todo, and the Todo refers to the updated Task from then
\* to the end of the update, wherever it was before.
C7_ExistingReassigned ==
    [][ /\ (InLoop /\ Found(Current))
              => /\ todos'[Current.id].task = upd.task
                 /\ "title" \in DOMAIN Current
                       => todos'[Current.id].title = Current.title
        /\ (Finishes /\ resp'.status = 200)
              => \A i \in NamedIds :
                    (i \in DOMAIN upd.pre /\ upd.pre[i].user = upd.user)
                       => todos'[i].task = upd.task
      ]_vars

C7_Witness ==
    /\ upd.pc = "loop"
    /\ upd.log # <<>>
    /\ upd.log[Len(upd.log)] = "updated"
    /\ LET d == todos_data[Len(upd.log)]
       IN  /\ upd.pre[d.id].task \notin {NoTask, upd.task}
           /\ upd.pre[d.id].title = "a"
           /\ d = ("id" :> d.id) @@ ("title" :> "b")
           /\ todos[d.id].task = upd.task
           /\ todos[d.id].title = "b"

\* C8: a descriptor whose id is unknown or names a Todo of another user is
\* skipped: no error, no Todo created, modified, reassigned or deleted, the
\* rest of the list is processed, and the update succeeds.
C8_SkipSilently ==
    [][ /\ (InLoop /\ "id" \in DOMAIN Current /\ ~Found(Current))
              => /\ todos' = todos
                 /\ tasks' = tasks
                 /\ upd'.pc = "loop"
                 /\ upd'.queue = Tail(upd.queue)
        /\ (Finishes /\ "skipped" \in Range(upd.log))
              => resp'.status = 200
      ]_vars

\* C9: a descriptor without id creates exactly one Todo, owned by the
\* requester, referring to the updated Task, with the descriptor's fields.
C9_CreatesOwnedTodo ==
    [][ (InLoop /\ "id" \notin DOMAIN Current)
          => \E n \in DOMAIN todos' \ DOMAIN todos :
                /\ DOMAIN todos' = DOMAIN todos \cup {n}
                /\ todos'[n].user = upd.user
                /\ todos'[n].task = upd.task
                /\ todos'[n].title = Get(Current, "title", "")
                /\ \A i \in DOMAIN todos : todos'[i] = todos[i]
      ]_vars

\* C11: for a found Todo the update writes neither an id, an owner nor a
\* task taken from the descriptor: the Todo keeps its id, is still owned by
\* the requester and refers to the updated Task.
C11_IdOwnerTaskNotApplied ==
    [][ (InLoop /\ Found(Current))
          => /\ DOMAIN todos' = DOMAIN todos
             /\ todos'[Current.id].user = upd.user
             /\ todos'[Current.id].task = upd.task
      ]_vars

\* a Todo row inserted by this step
Created == DOMAIN todos' \ DOMAIN todos

\* C18: a Todo created without tags has the tags <<"general">>, through
\* POST /todos/, through Todo.objects.create and through a descriptor
\* without id alike; one created with tags has exactly those.
C18_DefaultTags ==
    [][ \A n \in Created :
          LET given == IF upd.pc = "loop" THEN Current ELSE resp'.data
          IN  /\ "tags" \notin DOMAIN given => todos'[n].tags = <<"general">>
              /\ "tags" \in DOMAIN given => todos'[n].tags = given.tags
      ]_vars

\* a descriptor without id and without tags has created a Todo, next to a
\* Todo posted with the empty list of tags
C18_Witness ==
    /\ resp.op = "serializer_update"
    /\ resp.status = 500
    /\ todoSeq \in DOMAIN todos
    /\ todos[todoSeq].user = NoUser
    /\ todos[todoSeq].tags = <<"general">>
    /\ \E i \in DOMAIN todos : todos[i].tags = <<>> /\ todos[i].user # NoUser

----------------------------------------------------------------------------
(* Deleting a user: Task.user, Todo.user and Todo.task are on_delete=CASCADE *)

\* the reverse accessor user.tasks of Task.user (related_name='tasks')
user_tasks(tk, u) == {t \in DOMAIN tk : tk[t].user = u}

\* the reverse accessor user.todos of Todo.user (related_name="todos")
user_todos(td, u) == {i \in DOMAIN td : td[i].user = u}

\* the Tasks that go with user u
User_delete_tasks(tk, u) == Drop(tk, user_tasks(tk, u))

\* Todo.user with on_delete=SET_NULL in place of CASCADE
User_delete_todos_set_null(tk, td, u) ==
    LET under == UNION {task_todos(td, t) : t \in user_tasks(tk, u)}
    IN  [i \in DOMAIN td \ under |->
            IF td[i].user = u THEN [td[i] EXCEPT !.user = NoUser] ELSE td[i]]

\* the Todos that go with user u: the user's own, and through the cascade of
\* Task those under the user's Tasks
User_delete_todos(tk, td, u) ==
    Drop(td, user_todos(td, u)
             \cup UNION {task_todos(td, t) : t \in user_tasks(tk, u)})

\* Token.user is a one-to-one key with on_delete=CASCADE
User_delete_tokens(tk, u) ==
    IF Token_keys(tk, u) = {} THEN tk ELSE Drop(tk, Token_keys(tk, u))

\* user.delete(), as tests/test_models.py calls it
UserDelete(u) ==
    /\ Idle
    /\ u \in users
    /\ users' = users \ {u}
    /\ tasks' = User_delete_tasks(tasks, u)
    /\ todos' = User_delete_todos(tasks, todos, u)
    /\ tokens' = User_delete_tokens(tokens, u)
    /\ UNCHANGED <<taskSeq, todoSeq, upd, resp, logins, inflight>>

NextUsers ==
    \/ Idle /\ \E u \in Tenants \cap users :
                  TaskCreate(u, "title" :> "a", NoParam)
    \/ Idle /\ \E u \in Tenants \cap users, p \in ReconTodoPayloads :
                  TodoCreate(u, p)
    \/ Idle /\ \E u \in Tenants : UserDelete(u)
    \/ SendResponse

SpecUsers == Init /\ [][NextUsers]_vars

\* C21: deleting a user deletes every Task and every Todo the user owns and
\* every Todo under one of those Tasks, whoever owns it; afterwards no Task
\* and no Todo has the deleted user as owner, and the other rows are as they
\* were
C21_UserDeleteCascades ==
    [][\A u \in users \ users' :
         LET gone == Owned(todos, u) \cup
                     {i \in DOMAIN todos : todos[i].task \in Owned(tasks, u)}
         IN  /\ Owned(tasks', u) = {}
             /\ Owned(todos', u) = {}
             /\ DOMAIN tasks' = DOMAIN tasks \ Owned(tasks, u)
             /\ DOMAIN todos' = DOMAIN todos \ gone
             /\ \A t \in DOMAIN tasks' : tasks'[t] = tasks[t]
             /\ \A i \in DOMAIN todos' : todos'[i] = todos[i]]_vars

\* u1 has been deleted with its Task, its own Todo under it and the Todo of
\* u2 under it, while a Task of u2 is still there
C21_Witness ==
    /\ "u1" \notin users
    /\ taskSeq = 2
    /\ todoSeq = 2
    /\ DOMAIN todos = {}
    /\ \E t \in DOMAIN tasks : DOMAIN tasks = {t} /\ tasks[t].user = "u2"

----------------------------------------------------------------------------
(* Partial updates: PUT/PATCH bodies that carry some of the fields          *)

\* POST /tasks/ bodies with and without a description
PartialTaskCreatePayloads ==
    {("title" :> "a") @@ d : d \in {Empty} \cup Field("description", {"d"})}

\* PATCH /tasks/{id}/ bodies: any of title and description, a user sent along
PartialTaskUpdatePayloads ==
    {t @@ d @@ o : t \in {Empty} \cup Field("title", {"b"}),
                   d \in {Empty} \cup Field("description", {"e"}),
                   o \in {Empty} \cup Field("user", {"u2"})}

\* POST /todos/ bodies: the optional fields all left out or all given
PartialTodoCreatePayloads ==
    {("title" :> "a") @@ k @@ f :
        k \in {Empty} \cup Field("task", {1}),
        f \in {Empty, [description |-> "d", completed |-> TRUE,
                       due_date |-> 1, tags |-> <<"x">>]}}

\* PATCH /todos/{id}/ bodies with one field each
PartialTodoUpdatePayloads ==
    Field("completed", BOOLEAN) \cup Field("title", {"b"})
    \cup Field("task", {NoTask}) \cup Field("user", {"u2"})

NextPartial ==
    \/ Idle /\ \E p \in PartialTaskCreatePayloads : TaskCreate("u1", p, NoParam)
    \/ Idle /\ \E p \in PartialTodoCreatePayloads : TodoCreate("u1", p)
    \/ Idle /\ \E t \in TaskIds, partial \in BOOLEAN,
                  p \in PartialTaskUpdatePayloads :
                  TaskUpdate("u1", t, partial, p, NoParam)
    \/ Idle /\ \E i \in TodoIds, p \in PartialTodoUpdatePayloads :
                  TodoUpdate("u1", i, TRUE, p)
    \/ SendResponse

SpecPartial == Init /\ [][NextPartial]_vars

\* the fields of a Task and of a Todo that a client may write
TaskFields == {"title", "description"}

TodoFields == {"title", "description", "completed", "due_date", "tags", "task"}

\* C22: an accepted update changes the fields its payload carries and no
\* other: every field of the row that the payload leaves out, and the owner
\* in any case, is as before, and so is every other row
C22_PartialUpdateFrame ==
    [][/\ Answered({"task_update"}) /\ resp'.status = 200 =>
            /\ todos' = todos
            /\ DOMAIN tasks' = DOMAIN tasks
            /\ \A t \in DOMAIN tasks \ {resp'.id} : tasks'[t] = tasks[t]
            /\ tasks'[resp'.id].user = tasks[resp'.id].user
            /\ \A f \in TaskFields :
                  tasks'[resp'.id][f] =
                      IF f \in DOMAIN resp'.data THEN resp'.data[f]
                      ELSE tasks[resp'.id][f]
       /\ Answered({"todo_update"}) /\ resp'.status = 200 =>
            /\ tasks' = tasks
            /\ DOMAIN todos' = DOMAIN todos
            /\ \A i \in DOMAIN todos \ {resp'.id} : todos'[i] = todos[i]
            /\ todos'[resp'.id].user = todos[resp'.id].user
            /\ \A f \in TodoFields :
                  todos'[resp'.id][f] =
                      IF f \in DOMAIN resp'.data THEN resp'.data[f]
                      ELSE todos[resp'.id][f]]_vars

\* a PATCH with completed alone has answered on a Todo under a Task with
\* every optional field set, on a store where a Task with a description has
\* been given a new title
C22_Witness ==
    /\ resp.op = "todo_update" /\ resp.status = 200
    /\ resp.data = ("completed" :> FALSE)
    /\ todos[resp.id] = [user |-> "u1", task |-> 1, title |-> "a",
                         tags |-> <<"x">>, description |-> "d",
                         completed |-> FALSE, due_date |-> 1]
    /\ tasks[1] = [user |-> "u1", title |-> "b", description |-> "d"]

----------------------------------------------------------------------------
(* todos and todos_count for the three kinds of requester                   *)

\* serializer.get_todos(task) and serializer.get_todos_count(task) called on
\* a TaskSerializer whose context has no authenticated request
SerializerGetTodos(t) ==
    /\ Idle
    /\ UNCHANGED <<users, inflight>>
    /\ t \in DOMAIN tasks
    /\ resp' = Response("get_todos", NoUser, t, Empty, 0,
                        [todos |-> get_todos(todos, NoUser, t),
                         todos_count |-> get_todos_count(todos, NoUser, t)])
    /\ UNCHANGED <<tasks, todos, taskSeq, todoSeq, upd, tokens, logins>>

\* Todo.objects.create(**fields) with or without an owner, under a Task
CountModelFields ==
    {("title" :> "a") @@ ("task" :> 1) @@ o :
        o \in {Empty} \cup Field("user", Users)}

NextCount ==
    \/ Idle /\ \E u \in Users : TaskCreate(u, "title" :> "a", NoParam)
    \/ Idle /\ \E u \in Users, p \in ReconTodoPayloads : TodoCreate(u, p)
    \/ Idle /\ \E fields \in CountModelFields :
                  1 \in DOMAIN tasks /\ TodoModelCreate(fields)
    \/ Idle /\ \E u \in Users, t \in TaskIds, q \in {NoParam, "1"} :
                  TaskRetrieve(u, t, q)
    \/ Idle /\ \E t \in TaskIds : SerializerGetTodos(t)
    \/ SendResponse

SpecCount == Init /\ [][NextCount]_vars

\* the Todos under Task t that user u owns
TodosOfUnder(u, t) ==
    {i \in DOMAIN todos : todos[i].task = t /\ todos[i].user = u}

\* C23 as claimed: todos_count is the number of all Todos under the Task for
\* a superuser, the number of the requester's own for any other user, and 0
\* with an empty nested list when no authenticated requester is in context
C23_CountAllForElevated ==
    /\ resp.op = "task_retrieve" /\ resp.status = 200 =>
          resp.body.todos_count =
              IF is_superuser(resp.user)
              THEN Cardinality(task_todos(todos, resp.id))
              ELSE Cardinality(TodosOfUnder(resp.user, resp.id))
    /\ resp.op = "get_todos" =>
          resp.body.todos_count = 0 /\ resp.body.todos = <<>>

\* C23, amended: todos_count is the number of the requester's own Todos
\* under the Task for every authenticated requester, superuser or not, and
\* 0 with an empty nested list when no authenticated requester is in context
C23_CountOwnForAll ==
    /\ resp.op = "task_retrieve" /\ resp.status = 200 =>
          resp.body.todos_count =
              Cardinality(TodosOfUnder(resp.user, resp.id))
    /\ resp.op = "get_todos" =>
          resp.body.todos_count = 0 /\ resp.body.todos = <<>>

\* the superuser has fetched a Task with two Todos, one its own, and was
\* told 1
C23_Witness ==
    /\ resp.op = "task_retrieve" /\ resp.status = 200
    /\ is_superuser(resp.user)
    /\ Cardinality(task_todos(todos, resp.id)) = 2
    /\ resp.body.todos_count = 1

----------------------------------------------------------------------------
(* Requests that overlap: a request reads a row, other requests commit,     *)
(* and then the request writes.  One request at a time is followed between  *)
(* its read and its write (inflight); the loop of TaskSerializer.update     *)
(* and the other handlers run alongside it.                                 *)

\* PATCH /todos/{id}/ up to serializer.save(): get_object() has read the row
\* and the payload is valid
PatchLoad(u, i, p) ==
    /\ inflight.pc = "idle"
    /\ i \in TodoViewSet_get_queryset(todos, u)
    /\ TodoSerializer_is_valid(tasks, p, TRUE)
    /\ inflight' = [pc |-> "loaded", op |-> "todo_patch", user |-> u,
                    id |-> i, task |-> NoTask, data |-> p, row |-> todos[i]]
    /\ UNCHANGED <<tasks, todos, taskSeq, todoSeq, upd, resp, tokens, logins,
                   users>>

\* serializer.save() of that PATCH: ModelSerializer.update on the row read,
\* then instance.save()
PatchSave ==
    /\ inflight.pc = "loaded"
    /\ inflight.op = "todo_patch"
    /\ todos' = Todo_save(tasks, todos, inflight.id,
                          TodoSerializer_update(inflight.row, inflight.data))
    /\ inflight' = IdleRequest
    /\ UNCHANGED <<tasks, taskSeq, todoSeq, upd, resp, tokens, logins, users>>

\* a second TaskSerializer.update on Task t at line 85 with descriptor d:
\* Todo.objects.get(id=todo_id, user=request.user) has read the row
NestedGet(u, t, d) ==
    /\ inflight.pc = "idle"
    /\ t \in TaskViewSet_get_queryset(tasks, u)
    /\ "id" \in DOMAIN d
    /\ d.id \in DOMAIN todos
    /\ todos[d.id].user = u
    /\ inflight' = [pc |-> "loaded", op |-> "nested", user |-> u,
                    id |-> d.id, task |-> t, data |-> d, row |-> todos[d.id]]
    /\ UNCHANGED <<tasks, todos, taskSeq, todoSeq, upd, resp, tokens, logins,
                   users>>

\* lines 87-92 of that update: setattr, todo.save(), instance.todos.add(todo)
NestedSave ==
    /\ inflight.pc = "loaded"
    /\ inflight.op = "nested"
    /\ todos' = Task_todos_add(tasks,
                    Todo_save(tasks, todos, inflight.id,
                        TaskSerializer_update_setattr(inflight.row,
                                                      inflight.data)),
                    inflight.id, inflight.task)
    /\ inflight' = IdleRequest
    /\ UNCHANGED <<tasks, taskSeq, todoSeq, upd, resp, tokens, logins, users>>

\* DELETE /tasks/{id}/ after the first delete of perform_destroy
DestroyTodos(u, t) ==
    /\ inflight.pc = "idle"
    /\ t \in TaskViewSet_get_queryset(tasks, u)
    /\ todos' = TaskViewSet_perform_destroy_todos(todos, u, t)
    /\ inflight' = [IdleRequest EXCEPT !.pc = "todos_deleted",
                                       !.op = "task_destroy",
                                       !.user = u, !.id = t]
    /\ UNCHANGED <<tasks, taskSeq, todoSeq, upd, resp, tokens, logins, users>>

\* instance.delete(), line 63: the Task goes with the Todos then under it
DestroyTask ==
    /\ inflight.pc = "todos_deleted"
    /\ todos' = Task_delete_todos(todos, inflight.id)
    /\ tasks' = Drop(tasks, {inflight.id})
    /\ inflight' = IdleRequest
    /\ UNCHANGED <<taskSeq, todoSeq, upd, resp, tokens, logins, users>>

\* descriptors of the Task updates that overlap: a title for a Todo named by
\* id, or no id
ConcDescriptors ==
    {("id" :> i) @@ ("title" :> "b") : i \in TodoIds} \cup {"title" :> "b"}

\* PATCH /todos/{id}/ bodies of the requests that overlap
ConcPatchPayloads == Field("completed", {TRUE})

\* the requests of one user on the first Task of the store and its Todos
NextConc ==
    \/ Idle /\ taskSeq = 0 /\ TaskCreate("u1", "title" :> "a", NoParam)
    \/ Idle /\ \E p \in ReconTodoPayloads :
                  Get(p, "task", 1) = 1 /\ TodoCreate("u1", p)
    \/ Idle /\ \E d \in ConcDescriptors :
                  SerializerUpdate("u1", 1, "todos" :> <<d>>)
    \/ UpdateStep
    \/ UpdateReturn
    \/ \E i \in TodoIds, p \in ConcPatchPayloads : PatchLoad("u1", i, p)
    \/ PatchSave
    \/ \E d \in ConcDescriptors : NestedGet("u1", 1, d)
    \/ NestedSave
    \/ DestroyTodos("u1", 1)
    \/ DestroyTask
    \/ SendResponse

SpecConc == Init /\ [][NextConc]_vars

\* the request in flight writes its row with this step
Saves ==
    /\ inflight.pc = "loaded"
    /\ inflight'.pc = "idle"
    /\ inflight.id \in DOMAIN todos
    /\ inflight.id \in DOMAIN todos'

\* C24: a request writes the fields it supplies and no other: when a request
\* that read a Todo earlier writes it, every field its payload or descriptor
\* leaves out keeps the value committed last (the task reference excepted
\* for a Task update, which attaches the Todo)
C24_NoStaleOverwrite ==
    [][Saves =>
         \A f \in (TodoFields \cup {"user"}) \ DOMAIN inflight.data :
             \/ todos'[inflight.id][f] = todos[inflight.id][f]
             \/ f = "task" /\ inflight.op = "nested"]_vars

\* C25: every Todo refers to no Task or to a Task that exists, and every Task
\* and every Todo is owned by a user that exists
C25_ReferentialIntegrity ==
    /\ \A i \in DOMAIN todos :
          /\ todos[i].task = NoTask \/ todos[i].task \in DOMAIN tasks
          /\ todos[i].user \in users
    /\ \A t \in DOMAIN tasks : tasks[t].user \in users

----------------------------------------------------------------------------
(* Isolation of the tenants                                                 *)

\* C26: every Todo under a Task has the owner of that Task: no user who is
\* not a superuser gets a Todo under the Task of another user, by creating
\* it there, by moving it there or by a Task update
C26_TenantContainment ==
    \A i \in DOMAIN todos :
        todos[i].task # NoTask => tasks[todos[i].task].user = todos[i].user

\* the rows of a table that user u owns
OwnView(tbl, u) == [i \in Owned(tbl, u) |-> tbl[i]]

\* C27: what a user who is not a superuser is answered depends on the rows
\* of that user alone: POST /todos/ is accepted or refused as it would be on
\* a store holding only the requester's Tasks, and the Todo it returns names
\* no Task of another user
C27_NonInterference ==
    [][(Answered({"todo_create"}) /\ ~is_superuser(resp'.user)) =>
          /\ resp'.status =
                IF TodoSerializer_is_valid(OwnView(tasks, resp'.user),
                                           resp'.data, FALSE)
                THEN 201 ELSE 400
          /\ resp'.status = 201 =>
                resp'.body.task \in Owned(tasks, resp'.user) \cup {NoTask}]_vars

----------------------------------------------------------------------------
(* Applying a Task update again *)

\* the descriptors of the update in progress all carry an id
AllWithId == \A k \in DOMAIN todos_data : Get(todos_data[k], "id", 0) # 0

\* C28: a Task update whose descriptors all carry an id leaves a store that
\* the same update applied again does not change; a descriptor without id
\* (or with id 0) adds one Todo under the Task each time it is applied
C28_ReconcileIdempotent ==
    /\ [][(Finishes /\ AllWithId) =>
             TaskSerializer_update_loop(todos', todoSeq', upd.user, upd.task,
                                        todos_data) = todos']_vars
    /\ [][(InLoop /\ Get(Current, "id", 0) = 0) =>
             /\ upd'.pc = "loop"
             /\ Cardinality(task_todos(todos', upd.task)) =
                   Cardinality(task_todos(todos, upd.task)) + 1]_vars

----------------------------------------------------------------------------
(* Deleting a Todo; the count and the list of a Task *)

\* C29: an accepted DELETE /todos/{id}/ removes that Todo and nothing else:
\* every Task and every other Todo is as before, and the number of Todos of
\* the Todo's owner under its Task is one less
C29_TodoDeleteFrame ==
    [][(Answered({"todo_destroy"}) /\ resp'.status = 204) =>
          LET i == resp'.id
          IN  /\ i \in DOMAIN todos
              /\ tasks' = tasks
              /\ DOMAIN todos' = DOMAIN todos \ {i}
              /\ \A j \in DOMAIN todos' : todos'[j] = todos[j]
              /\ todos[i].task # NoTask =>
                    /\ todos[i].task \in DOMAIN tasks'
                    /\ get_todos_count(todos', todos[i].user, todos[i].task)
                          = get_todos_count(todos, todos[i].user,
                                            todos[i].task) - 1]_vars

\* the superuser has deleted the Todo of another user, one of two under a
\* Task that is still there with the other Todo
C29_Witness ==
    /\ resp.op = "todo_destroy" /\ resp.status = 204
    /\ is_superuser(resp.user)
    /\ resp.id \notin DOMAIN todos
    /\ todoSeq = 2
    /\ \E j \in DOMAIN todos :
          /\ todos[j].task \in DOMAIN tasks
          /\ todos[j].user \notin {resp.user, tasks[todos[j].task].user}

\* C30: with include_todos=1 every Task of a response carries a todos list
\* and a todos_count that is the length of that list
C30_CountIsListLength ==
    resp.query = "1" =>
        \A r \in TaskReps :
            /\ "todos" \in DOMAIN r
            /\ r.todos_count = Len(r.todos)

\* the superuser has fetched with include_todos=1 a Task with two Todos, one
\* of them its own: the list has one entry and the count is 1
C30_Witness ==
    /\ resp.op = "task_retrieve" /\ resp.status = 200 /\ resp.query = "1"
    /\ is_superuser(resp.user)
    /\ Cardinality(task_todos(todos, resp.id)) = 2
    /\ Len(resp.body.todos) = 1
    /\ resp.body.todos_count = 1

====
